---- MODULE Spec2Model ----
(***************************************************************************)
(* Model of the PDS (Processing and Display System) of the ESP32           *)
(* oscilloscope: Pds::processData and its helpers findTrigger,             *)
(* scaleAmplitude, clearMatrix and drawLine (MCU/pds/pds.cpp, pds.h).      *)
(*                                                                         *)
(* The output matrix uint8_t[600][800] is kept sparsely: a function from   *)
(* the cells <<x, y>> (column, row; the C++ element matrix[y][x]) that     *)
(* hold a nonzero byte to that byte.  Every cell outside the domain is 0.  *)
(* A sample buffer is a sequence of bytes; the C++ element data[i] is      *)
(* data[i + 1] here.                                                       *)
(*                                                                         *)
(* The amplitude scale is a float in the code.  It is kept as a fraction   *)
(* num/den whose denominator is a power of two no larger than 4.  For such *)
(* scales the float computation of scaleAmplitude is reproduced exactly by *)
(* integer arithmetic: value * scale is exact, and the product             *)
(* (scaled / 255.0f) * 599 is either exactly an integer (when 255 divides  *)
(* value * num, the quotient is a dyadic fraction and nothing is rounded)  *)
(* or at least 1/1020 away from one, far more than the rounding error of   *)
(* two float operations (< 2^-13), so the truncation to uint16_t is the    *)
(* floor of the exact quotient.                                            *)
(***************************************************************************)
EXTENDS Integers, Sequences, FiniteSets, TLC

\* ---------------------------------------------------------------- constants
MATRIX_WIDTH == 800
MATRIX_HEIGHT == 600
\* ((size_t)-1): the "not found" value of findTrigger, larger than every index.
\* It is kept as -1, which no index equals either.
SIZE_MAX == -1
SAMPLE_BUFFER_SIZE == 1024

TRIGGER_OFF == "TRIGGER_OFF"
TRIGGER_RISING == "TRIGGER_RISING"
TRIGGER_FALLING == "TRIGGER_FALLING"
TRIGGER_LEVEL == "TRIGGER_LEVEL"
TriggerMode == {TRIGGER_OFF, TRIGGER_RISING, TRIGGER_FALLING, TRIGGER_LEVEL}

\* ------------------------------------------------------------------- bounds
\* Short sample buffers: every byte sequence over SampleValues up to MaxLen.
MaxLen == 2
SampleValues == {127, 128}
\* Sample buffers of the trigger specification: every byte sequence over
\* TriggerValues up to MaxTrigLen, against every level of TriggerLevels.
MaxTrigLen == 4
TriggerValues == {127, 128, 129}
TriggerLevels == {127, 128, 129}
\* The linear ramps 0, 1, 2, .. of up to MaxRampLen samples.
MaxRampLen == 100
\* End points of the lines drawn by drawLine alone: the columns 0 .. MaxLineX
\* and the rows 0 .. MaxLineY, the last column and row, and the first column
\* and row past the matrix.
MaxLineX == 3
MaxLineY == 3
\* The passes of the while loop of drawLine that are followed.
MaxLineSteps == 1400
\* Inputs of the setters: the accepted ones and the ones the setters ignore.
\* Both sketches set the trigger level 128.
Levels == {128}
UnitScale == [num |-> 1, den |-> 1]
AcceptedScales == {UnitScale, [num |-> 2, den |-> 1]}
RejectedScales == {[num |-> 0, den |-> 1], [num |-> -1, den |-> 1]}
AcceptedTimeScales == {1, 2}
RejectedTimeScales == {0}

\* The column loop on its own: buffer lengths, sample values on the two
\* sides of the trigger level whose averages are not whole, and samples
\* per pixel.
MaxColumnLen == 5
ColumnValues == {100, 201}
ColumnTimeScales == {1, 2, 3}

\* The simulator on its own: transactions per run, data bytes read in a
\* transaction, and the addresses sent (the first cell, the sawtooth
\* section, the last cell, and the first address past the RAM).
MaxTransactions == 2
MaxData == 3
TransactionAddresses == {0, 8192, 65535, 65536}

VARIABLES
    triggerMode,       \* Pds::_triggerMode
    triggerLevel,      \* Pds::_triggerLevel
    amplitudeScale,    \* Pds::_amplitudeScale, a fraction [num, den]
    samplesPerPixel,   \* Pds::_samplesPerPixel
    initialized,       \* Pds::_initialized
    triggerDetected,   \* Pds::_triggerDetected
    triggerPosition,   \* Pds::_triggerPosition
    matrix,            \* the caller's output matrix (nonzero cells only)
    call,              \* the last processData call: arguments, locals, result
    mcu,               \* MCU.ino: the globals and function statics of the sketch
    sim,               \* main2.ino: the volatile globals of the RAM simulator
    bus                \* the SPI transaction between the two

config == <<triggerMode, triggerLevel, amplitudeScale, samplesPerPixel>>
trigger == <<triggerDetected, triggerPosition>>
board == <<mcu, sim, bus>>
vars == <<config, initialized, trigger, matrix, call, board>>

\* ------------------------------------------------------------------ helpers
\* constrainValue<T>(value, min_val, max_val)
constrainValue(value, min_val, max_val) ==
    IF value < min_val THEN min_val
    ELSE IF value > max_val THEN max_val
    ELSE value

abs(n) == IF n < 0 THEN -n ELSE n

\* data[i] of the C++ buffer
At(data, i) == data[i + 1]

\* ------------------------------------------------------------- findTrigger
\* The three for loops of findTrigger, run over the indices lo .. hi - 1 in
\* increasing order: the first index at which the if of the loop body holds,
\* SIZE_MAX when the loop ends without a return.  The index range is halved
\* at each level so that a loop over a long buffer nests only a few calls.
\* The rising test with > for >=: a sample equal to the level does not count.
RisingTestStrict(data, level, i) == At(data, i - 1) < level /\ At(data, i) > level

RisingTest(data, level, i) == At(data, i - 1) < level /\ At(data, i) >= level

RECURSIVE RisingScan(_, _, _, _)
RisingScan(data, level, lo, hi) ==
    IF ~(lo < hi) THEN SIZE_MAX
    ELSE IF hi = lo + 1 THEN (IF RisingTest(data, level, lo) THEN lo ELSE SIZE_MAX)
    ELSE LET mid == lo + ((hi - lo) \div 2)
             first == RisingScan(data, level, lo, mid)
         IN IF first # SIZE_MAX THEN first ELSE RisingScan(data, level, mid, hi)

\* The falling test with > for >=: a previous sample equal to the level does
\* not count.
FallingTestStrict(data, level, i) == At(data, i - 1) > level /\ At(data, i) < level

FallingTest(data, level, i) == At(data, i - 1) >= level /\ At(data, i) < level

RECURSIVE FallingScan(_, _, _, _)
FallingScan(data, level, lo, hi) ==
    IF ~(lo < hi) THEN SIZE_MAX
    ELSE IF hi = lo + 1 THEN (IF FallingTest(data, level, lo) THEN lo ELSE SIZE_MAX)
    ELSE LET mid == lo + ((hi - lo) \div 2)
             first == FallingScan(data, level, lo, mid)
         IN IF first # SIZE_MAX THEN first ELSE FallingScan(data, level, mid, hi)

\* The level test that needs a previous sample: index 0 never qualifies.
LevelTestAfterFirst(data, level, i) ==
    /\ i > 0
    /\ \/ (At(data, i) >= level /\ At(data, i - 1) < level)
       \/ (At(data, i) < level /\ At(data, i - 1) >= level)

LevelTest(data, level, i) ==
    \/ (At(data, i) >= level /\ (i = 0 \/ At(data, i - 1) < level))
    \/ (At(data, i) < level /\ (i = 0 \/ At(data, i - 1) >= level))

RECURSIVE LevelScan(_, _, _, _)
LevelScan(data, level, lo, hi) ==
    IF ~(lo < hi) THEN SIZE_MAX
    ELSE IF hi = lo + 1 THEN (IF LevelTest(data, level, lo) THEN lo ELSE SIZE_MAX)
    ELSE LET mid == lo + ((hi - lo) \div 2)
             first == LevelScan(data, level, lo, mid)
         IN IF first # SIZE_MAX THEN first ELSE LevelScan(data, level, mid, hi)

\* findTrigger without its check of length < 2.
findTriggerAnyLength(data, length, mode, level) ==
    CASE mode = TRIGGER_RISING -> RisingScan(data, level, 1, length)
      [] mode = TRIGGER_FALLING -> FallingScan(data, level, 1, length)
      [] mode = TRIGGER_LEVEL -> LevelScan(data, level, 0, length)
      [] OTHER -> SIZE_MAX

\* size_t Pds::findTrigger(const uint8_t* data, size_t length)
\* mode and level are the members _triggerMode and _triggerLevel it reads.
findTrigger(data, length, mode, level) ==
    IF length < 2 THEN SIZE_MAX
    ELSE CASE mode = TRIGGER_RISING -> RisingScan(data, level, 1, length)
           [] mode = TRIGGER_FALLING -> FallingScan(data, level, 1, length)
           [] mode = TRIGGER_LEVEL -> LevelScan(data, level, 0, length)
           [] OTHER -> SIZE_MAX

\* ---------------------------------------------------------- scaleAmplitude
\* scaleAmplitude without the clamp of the scaled value to 0 .. 255.
scaleAmplitudeUnclamped(value, scale) ==
    LET trunc == (value * scale.num * (MATRIX_HEIGHT - 1)) \div (255 * scale.den)
        y == (MATRIX_HEIGHT - 1 - trunc) % 65536
    IN constrainValue(y, 0, MATRIX_HEIGHT - 1)

\* scaleAmplitude without the inversion of the y axis.
scaleAmplitudeNotInverted(value, scale) ==
    LET scaledNum == constrainValue(value * scale.num, 0, 255 * scale.den)
        y == (scaledNum * (MATRIX_HEIGHT - 1)) \div (255 * scale.den)
    IN constrainValue(y, 0, MATRIX_HEIGHT - 1)

\* uint16_t Pds::scaleAmplitude(uint8_t value)
\* scale is the member _amplitudeScale it reads.
scaleAmplitude(value, scale) ==
    LET num == scale.num
        den == scale.den
        \* scaledValue = constrain(value * scale, 0, 255), in units of 1/den
        scaledNum == constrainValue(value * num, 0, 255 * den)
        \* (uint16_t)((scaledValue / 255.0f) * (MATRIX_HEIGHT - 1))
        trunc == (scaledNum * (MATRIX_HEIGHT - 1)) \div (255 * den)
        y == (MATRIX_HEIGHT - 1 - trunc) % 65536
    IN constrainValue(y, 0, MATRIX_HEIGHT - 1)

\* -------------------------------------------------------------- clearMatrix
\* clearMatrix with y < MATRIX_HEIGHT - 1 as the bound of its outer loop:
\* the last row is left as it is.
clearMatrixKeepLastRow(m) ==
    [c \in {d \in DOMAIN m : d[2] = MATRIX_HEIGHT - 1} |-> m[c]] @@ << >>

\* clearMatrix with x < MATRIX_WIDTH - 1 as the bound of its inner loop:
\* the last column is left as it is.
clearMatrixKeepLastColumn(m) ==
    [c \in {d \in DOMAIN m : d[1] = MATRIX_WIDTH - 1} |-> m[c]] @@ << >>

\* void Pds::clearMatrix(matrix): every cell becomes 0
clearMatrix(m) == << >>

\* ----------------------------------------------------------------- drawLine
\* The step with "else if" for the second test: one axis per pass.
BresenhamStepOneAxis(s, dx, dy, sx, sy) ==
    LET e2 == 2 * s[3]
    IN IF e2 > -dy THEN <<s[1] + sx, s[2], s[3] - dy>>
       ELSE IF e2 < dx THEN <<s[1], s[2] + sy, s[3] + dx>>
       ELSE s

\* One pass through the body of the while loop of drawLine that does not
\* break: the loop state <<x, y, err>> after "Calcular siguiente pixel".
BresenhamStep(s, dx, dy, sx, sy) ==
    LET e2 == 2 * s[3]
        stepX == e2 > -dy
        stepY == e2 < dx
        err1 == IF stepX THEN s[3] - dy ELSE s[3]
    IN <<IF stepX THEN s[1] + sx ELSE s[1],
         IF stepY THEN s[2] + sy ELSE s[2],
         IF stepY THEN err1 + dx ELSE err1>>

\* The while loop of drawLine from the loop state s on: the loop states at
\* the top of the body, in order, ending with the one that breaks at
\* (x2, y2), and cut off after n of them.  The n passes are split in halves
\* so that a long line nests only a few calls.
RECURSIVE BresenhamRun(_, _, _, _, _, _, _, _)
BresenhamRun(s, n, x2, y2, dx, dy, sx, sy) ==
    IF n <= 1 \/ (s[1] = x2 /\ s[2] = y2) THEN <<s>>
    ELSE LET h == n \div 2
             first == BresenhamRun(s, h, x2, y2, dx, dy, sx, sy)
             last == first[Len(first)]
         IN IF last[1] = x2 /\ last[2] = y2 THEN first
            ELSE first \o BresenhamRun(BresenhamStep(last, dx, dy, sx, sy), n - h,
                                       x2, y2, dx, dy, sx, sy)

\* The loop of drawLine stepping towards larger x whatever the end points.
LinePathForwardOnly(x1, y1, x2, y2) ==
    LET dx == abs(x2 - x1)
        dy == abs(y2 - y1)
        sy == IF y1 < y2 THEN 1 ELSE -1
    IN BresenhamRun(<<x1, y1, dx - dy>>, MaxLineSteps, x2, y2, dx, dy, 1, sy)

\* The loop states of drawLine(matrix, x1, y1, x2, y2, value) past the bounds
\* check.  All quantities stay far inside int16_t for MaxLineSteps passes.
LinePath(x1, y1, x2, y2) ==
    LET dx == abs(x2 - x1)
        dy == abs(y2 - y1)
        sx == IF x1 < x2 THEN 1 ELSE -1
        sy == IF y1 < y2 THEN 1 ELSE -1
    IN BresenhamRun(<<x1, y1, dx - dy>>, MaxLineSteps, x2, y2, dx, dy, sx, sy)

\* drawLine with the two indices of the matrix element exchanged.
DrawLineCellsTransposed(x1, y1, x2, y2) ==
    IF x1 >= MATRIX_WIDTH \/ x2 >= MATRIX_WIDTH \/ y1 >= MATRIX_HEIGHT \/ y2 >= MATRIX_HEIGHT
    THEN {}
    ELSE LET path == LinePath(x1, y1, x2, y2)
         IN {<<path[k][2], path[k][1]>> : k \in
                {j \in 1..Len(path) : /\ path[j][1] >= 0 /\ path[j][1] < MATRIX_WIDTH
                                      /\ path[j][2] >= 0 /\ path[j][2] < MATRIX_HEIGHT}}

\* drawLine without its check of the end points: the part of the line that
\* lies inside the matrix is drawn.
DrawLineCellsClipped(x1, y1, x2, y2) ==
    LET path == LinePath(x1, y1, x2, y2)
    IN {<<path[k][1], path[k][2]>> : k \in
           {j \in 1..Len(path) : /\ path[j][1] >= 0 /\ path[j][1] < MATRIX_WIDTH
                                 /\ path[j][2] >= 0 /\ path[j][2] < MATRIX_HEIGHT}}

\* The matrix elements drawLine assigns: <<x, y>> stands for matrix[y][x].
DrawLineCells(x1, y1, x2, y2) ==
    IF x1 >= MATRIX_WIDTH \/ x2 >= MATRIX_WIDTH \/ y1 >= MATRIX_HEIGHT \/ y2 >= MATRIX_HEIGHT
    THEN {}
    ELSE LET path == LinePath(x1, y1, x2, y2)
         IN {<<path[k][1], path[k][2]>> : k \in
                {j \in 1..Len(path) : /\ path[j][1] >= 0 /\ path[j][1] < MATRIX_WIDTH
                                      /\ path[j][2] >= 0 /\ path[j][2] < MATRIX_HEIGHT}}

\* The matrix after matrix[y][x] = value for every cell of cells.
Assign(m, cells, value) ==
    IF value = 0 THEN [c \in DOMAIN m \ cells |-> m[c]] @@ << >>
    ELSE [c \in cells |-> value] @@ m

\* void Pds::drawLine(matrix, x1, y1, x2, y2, value)
drawLine(m, x1, y1, x2, y2, value) == Assign(m, DrawLineCells(x1, y1, x2, y2), value)

\* -------------------------------------------------------------- processData
\* The inner loop that adds the first sample of the pixel only.
SumSamplesFirstOnly(data, sampleIndex, count) ==
    IF count = 0 THEN 0 ELSE At(data, sampleIndex)

\* sum of data[sampleIndex .. sampleIndex + count - 1]
RECURSIVE SumSamples(_, _, _)
SumSamples(data, sampleIndex, count) ==
    IF count = 0 THEN 0
    ELSE At(data, sampleIndex) + SumSamples(data, sampleIndex + 1, count - 1)

\* One pass through the body of the for loop over the pixel columns, for
\* column x with prevY the row of column x - 1: the cells its drawLine call
\* assigns, the new prevY, whether the loop left through its break, and the
\* locals sampleCount and avgValue.
ColumnStep(prevY, x, data, inputLength, startIndex, scale, spp) ==
    LET sampleIndex == startIndex + (x * spp)
    IN IF sampleIndex >= inputLength
       THEN [written |-> {}, prevY |-> prevY, broken |-> TRUE,
             sampleCount |-> 0, avgValue |-> 0]
       ELSE LET \* the inner loop stops at samplesPerPixel or at the buffer end
                sampleCount == IF sampleIndex + spp <= inputLength
                               THEN spp
                               ELSE inputLength - sampleIndex
                sum == SumSamples(data, sampleIndex, sampleCount)
                avgValue == IF sampleCount > 0 THEN (sum \div sampleCount) % 256
                            ELSE At(data, sampleIndex)
                currentY == scaleAmplitude(avgValue, scale)
            IN [written |-> DrawLineCells(x - 1, prevY, x, currentY),
                prevY |-> currentY,
                broken |-> FALSE,
                sampleCount |-> sampleCount, avgValue |-> avgValue]

\* The for loop over the columns lo .. hi - 1, in increasing order, entered
\* with prevY: the cells its drawLine calls assign, the last prevY, and
\* whether it left through its break.  The column range is halved at each
\* level so that the 800 columns nest only a few calls.
RECURSIVE ColumnLoop(_, _, _, _, _, _, _, _)
ColumnLoop(prevY, lo, hi, data, inputLength, startIndex, scale, spp) ==
    IF ~(lo < hi) THEN [written |-> {}, prevY |-> prevY, broken |-> FALSE]
    ELSE IF hi = lo + 1 THEN ColumnStep(prevY, lo, data, inputLength, startIndex, scale, spp)
    ELSE LET mid == lo + ((hi - lo) \div 2)
             first == ColumnLoop(prevY, lo, mid, data, inputLength, startIndex, scale, spp)
             rest == ColumnLoop(first.prevY, mid, hi, data, inputLength, startIndex,
                                scale, spp)
         IN IF first.broken THEN first
            ELSE [written |-> UNION {first.written, rest.written},
                  prevY |-> rest.prevY,
                  broken |-> rest.broken]

\* The trigger search of processData ("Buscar trigger si esta habilitado"):
\* the local triggerPos, whether a trigger was detected, and startIndex.
TriggerSearch(mode, level, inputData, inputLength) ==
    LET triggerPos == IF mode # TRIGGER_OFF
                      THEN findTrigger(inputData, inputLength, mode, level)
                      ELSE SIZE_MAX
        found == mode # TRIGGER_OFF /\ triggerPos # SIZE_MAX
    IN [found |-> found,
        triggerPos |-> triggerPos,
        startIndex |-> IF found THEN triggerPos ELSE 0]

\* pixelsToFill with the number of pixels rounded up.
PixelsToFillRoundedUp(inputLength, startIndex, spp) ==
    LET availableSamples == inputLength - startIndex
    IN IF (availableSamples + spp - 1) \div spp < MATRIX_WIDTH
       THEN (availableSamples + spp - 1) \div spp
       ELSE MATRIX_WIDTH

\* pixelsToFill without the cap at MATRIX_WIDTH.
PixelsToFillUncapped(inputLength, startIndex, spp) ==
    (inputLength - startIndex) \div spp

\* pixelsToFill that leaves the last available sample out.
PixelsToFillOneLess(inputLength, startIndex, spp) ==
    LET availableSamples == inputLength - startIndex - 1
    IN IF availableSamples \div spp < MATRIX_WIDTH
       THEN availableSamples \div spp
       ELSE MATRIX_WIDTH

\* The local pixelsToFill of processData.
PixelsToFill(inputLength, startIndex, spp) ==
    LET availableSamples == inputLength - startIndex
    IN IF availableSamples \div spp < MATRIX_WIDTH
       THEN availableSamples \div spp
       ELSE MATRIX_WIDTH

\* The trigger members with _triggerPosition put back to 0 when the search
\* finds nothing.
TriggerUpdateResetsPosition(found, triggerPos, detected, position) ==
    [detected |-> found,
     position |-> IF found THEN triggerPos ELSE 0]

\* The trigger members without the reset of _triggerDetected before the
\* search.
TriggerUpdateNoReset(found, triggerPos, detected, position) ==
    [detected |-> found \/ detected,
     position |-> IF found THEN triggerPos ELSE position]

\* The members _triggerDetected and _triggerPosition after the trigger search
\* of processData: _triggerDetected is reset before the search and set when a
\* trigger was found; _triggerPosition is assigned only then.
TriggerUpdate(found, triggerPos, detected, position) ==
    [detected |-> found,
     position |-> IF found THEN triggerPos ELSE position]

\* processData past its parameter check and clearMatrix, for the
\* configuration (mode, level, scale, spp): the trigger search, pixelsToFill,
\* the cells the drawing loop assigns with 255, and the return value.  None
\* of it reads the matrix.
ProcessBody(mode, level, scale, spp, inputData, inputLength) ==
    LET search == TriggerSearch(mode, level, inputData, inputLength)
        startIndex == search.startIndex
        pixelsToFill == PixelsToFill(inputLength, startIndex, spp)
        prevY == scaleAmplitude(At(inputData, startIndex), scale)
        drawn == ColumnLoop(prevY, 1, pixelsToFill, inputData, inputLength, startIndex,
                            scale, spp)
    IN [found |-> search.found,
        triggerPos |-> search.triggerPos,
        startIndex |-> startIndex,
        pixelsToFill |-> pixelsToFill,
        result |-> pixelsToFill # 0,
        written |-> IF pixelsToFill = 0 THEN {} ELSE drawn.written]

\* ------------------------------------------------------------------- inputs
\* The byte sequences of length 0 .. n over values.
BuffersOver(values, n) == UNION {[1..k -> values] : k \in 0..n}

ShortBuffers == BuffersOver(SampleValues, MaxLen)

\* The sawtooth 0, 1, .., 255, 0, 1, .. of n samples.
Sawtooth(n) == [i \in 1..n |-> (i - 1) % 256]

\* A full capture buffer of MCU.ino.
LongBuffer == Sawtooth(SAMPLE_BUFFER_SIZE)

Buffers == ShortBuffers \cup {LongBuffer}

\* uint8_t sampleBuffer[SAMPLE_BUFFER_SIZE] of MCU.ino, a global, at power-on
sampleBuffer == [k \in 1..SAMPLE_BUFFER_SIZE |-> 0]

TriggerBuffers == BuffersOver(TriggerValues, MaxTrigLen)

\* The linear ramp 0, 1, .., n - 1.
Ramp(n) == [i \in 1..n |-> (i - 1) % 256]

\* The shortest ramps and the ones of about MaxRampLen samples.
RampBuffers == {Ramp(n) : n \in {1, 2} \cup (MaxRampLen - 7)..MaxRampLen}
RampLevels == {50, 128}

\* ------------------------------------------------------- the RAM simulator
\* main2.ino: the SPI slave that stands in for the sample RAM.
RAM_SIZE == 65536
CMD_READ == 3
ADDR_BYTES == 3

\* (int)(127.0 * sin((2.0 * PI * i) / 100.0)) for i = 0..99; the values of
\* the later indices repeat these with period 100.
SineTable ==
    <<0, 7, 15, 23, 31, 39, 46, 54, 61, 68, 74, 80, 86, 92, 97, 102, 107, 111, 114, 118,
      120, 123, 124, 125, 126, 127, 126, 125, 124, 123, 120, 118, 114, 111, 107, 102, 97,
      92, 86, 80, 74, 68, 61, 54, 46, 39, 31, 23, 15, 7,
      0, -7, -15, -23, -31, -39, -46, -54, -61, -68, -74, -80, -86, -92, -97, -102, -107,
      -111, -114, -118, -120, -123, -124, -125, -126, -127, -126, -125, -124, -123, -120,
      -118, -114, -111, -107, -102, -97, -92, -86, -80, -74, -68, -61, -54, -46, -39, -31,
      -23, -15, -7>>

\* (uint8_t) of a negative floating value is undefined: a build either
\* converts through a signed integer and keeps the low byte, or converts
\* to 0.
CAST_WRAPS == "wraps"
CAST_ZERO == "zero"
Casts == {CAST_WRAPS, CAST_ZERO}

\* random(0, 256): one of the sequences it can return.
NoiseByte(i) == (i * 37) % 256

pattern == <<0, 32, 64, 96, 128, 160, 192, 224, 255, 224, 192, 160, 128, 96, 64, 32>>

\* simulatedRAM[i] as generateTestData() leaves it.
simulatedRAM(i, cast) ==
    IF i < 8192
    THEN LET t == SineTable[(i % 100) + 1]
         IN IF t >= 0 THEN 128 + t
            ELSE IF cast = CAST_WRAPS THEN (128 + (t % 256)) % 256 ELSE 128
    ELSE IF i < 16384 THEN (i - 8192) % 256
    ELSE IF i < 24576 THEN (IF ((i - 16384) \div 128) % 2 # 0 THEN 200 ELSE 55)
    ELSE IF i < 32768 THEN NoiseByte(i)
    ELSE IF i < 40960 THEN ((i - 32768) * 255) \div 8191
    ELSE IF i < 49152
    THEN (IF i - 40960 < 2000 THEN 100 ELSE IF i - 40960 < 4000 THEN 180 ELSE 100)
    ELSE IF i < 57344 THEN pattern[((i - 49152) % 16) + 1]
    ELSE 255

\* The simulator's volatile globals as setup() leaves them, the slave's
\* transmit register wr_buf[0], and the cast of the build that filled
\* simulatedRAM.
SimulatorSetup(cast) ==
    [commandReceived |-> FALSE, command |-> 0, addressBytesReceived |-> 0,
     currentAddress |-> 0, dataRequested |-> FALSE, wr_buf |-> 0, cast |-> cast]

\* void spiSlaveISR(), run for one byte received from the master.  The
\* byte it leaves in wr_buf[0] is the byte the master receives for that
\* transfer.
spiSlaveISR(s, receivedByte) ==
    IF ~s.commandReceived
    THEN [s EXCEPT !.command = receivedByte, !.commandReceived = TRUE,
                   !.addressBytesReceived = 0, !.currentAddress = 0]
    ELSE IF s.command = CMD_READ /\ s.addressBytesReceived < ADDR_BYTES
    THEN LET address == s.currentAddress * 256 + receivedByte
             received == s.addressBytesReceived + 1
         IN [s EXCEPT !.addressBytesReceived = received,
                      !.dataRequested = (received = ADDR_BYTES) \/ @,
                      !.currentAddress = IF received = ADDR_BYTES /\ address >= RAM_SIZE
                                         THEN 0 ELSE address]
    ELSE IF s.command = CMD_READ /\ s.dataRequested
    THEN [s EXCEPT !.wr_buf = simulatedRAM(s.currentAddress, s.cast),
                   !.currentAddress = (s.currentAddress + 1) % RAM_SIZE]
    ELSE s

\* ------------------------------------------------------------ RamReader
\* The bytes a read transaction clocks out: the command, the address with
\* its most significant byte first (sendAddress), and len zeros.
ReadBytes(addr, len) ==
    <<CMD_READ, (addr \div 65536) % 256, (addr \div 256) % 256, addr % 256>>
        \o [k \in 1..len |-> 0]

\* The simulator after the bytes lo..hi of a transaction, and the byte the
\* master received in each of these transfers.  The range is halved at each
\* level, and the first half is evaluated before the second is entered.
RECURSIVE Transfers(_, _, _, _)
Transfers(s, bytes, lo, hi) ==
    IF lo > hi THEN [sim |-> s, replies |-> << >>]
    ELSE IF lo = hi
    THEN LET t == spiSlaveISR(s, bytes[lo])
         IN [sim |-> t, replies |-> <<t.wr_buf>>]
    ELSE LET mid == (lo + hi) \div 2
             head == Transfers(s, bytes, lo, mid)
         IN IF Len(head.replies) = 0 THEN head
            ELSE LET tail == Transfers(head.sim, bytes, mid + 1, hi)
                 IN [sim |-> tail.sim, replies |-> head.replies \o tail.replies]

\* RamReader::_ramSize, set by the constructor
ramSize == 1024

\* void RamReader::readBlock(addr, buffer, len) on a buffer that is not
\* null: the buffer and the simulator after the call, and the number of
\* bytes transferred.
readBlock(ready, s, addr, buffer, len) ==
    IF ~ready \/ len = 0 \/ (ramSize # 0 /\ addr >= ramSize)
    THEN [buffer |-> buffer, sim |-> s, transferred |-> 0]
    ELSE LET maxlen == ramSize - addr
             n == IF ramSize # 0 /\ len > maxlen THEN maxlen ELSE len
             bytes == ReadBytes(addr, n)
             run == Transfers(s, bytes, 1, Len(bytes))
         IN [buffer |-> [k \in 1..Len(buffer) |->
                            IF k <= n THEN run.replies[k + 4] ELSE buffer[k]],
             sim |-> run.sim, transferred |-> Len(bytes)]

\* The transaction on the SPI bus: whether the chip select is low, the
\* number of transactions begun, the address of the last one, the bytes
\* transferred in it and the byte the master received in the last transfer.
BusIdle == [selected |-> FALSE, transactions |-> 0, addr |-> 0, transferred |-> 0, reply |-> 0]

\* ProcessBody for every configuration the setters of Next can produce and
\* every non-empty buffer of Buffers, and for every trigger mode of the
\* sketch and its sample buffer at power-on, evaluated once.
OutcomeTable ==
    [k \in (TriggerMode \X Levels \X AcceptedScales \X AcceptedTimeScales
              \X (Buffers \ {<< >>}))
           \cup (TriggerMode \X {128} \X {UnitScale} \X {1} \X {sampleBuffer}) |->
        ProcessBody(k[1], k[2], k[3], k[4], k[5], Len(k[5]))] @@ << >>

\* ProcessBody, looked up in OutcomeTable where it was evaluated already.
Outcome(mode, level, scale, spp, inputData, inputLength) ==
    IF <<mode, level, scale, spp, inputData>> \in DOMAIN OutcomeTable
    THEN OutcomeTable[<<mode, level, scale, spp, inputData>>]
    ELSE ProcessBody(mode, level, scale, spp, inputData, inputLength)

\* ------------------------------------------------------ the member functions
\* The record of the last processData call: its arguments, whether it got
\* past the parameter check, its locals and its return value.  stale tells
\* whether a cell that was nonzero before the call was not assigned by it;
\* fresh, that no other member function has been called since it returned.
CallRecord(dataNull, data, len, matrixNull, ret, reached, out, stale) ==
    [dataNull |-> dataNull, inputData |-> data, inputLength |-> len,
     matrixNull |-> matrixNull, result |-> ret, checked |-> reached,
     found |-> out.found, triggerPos |-> out.triggerPos, startIndex |-> out.startIndex,
     pixelsToFill |-> out.pixelsToFill, written |-> out.written,
     stale |-> stale, fresh |-> TRUE]

NoOutcome ==
    [found |-> FALSE, triggerPos |-> SIZE_MAX, startIndex |-> 0, pixelsToFill |-> 0,
     result |-> FALSE, written |-> {}]

NoCall == [CallRecord(FALSE, << >>, 0, FALSE, "none", FALSE, NoOutcome, FALSE)
             EXCEPT !.fresh = FALSE]

\* processData that puts the time scale back to one sample per pixel once it
\* has drawn.
processDataResetsTimeScale(dataNull, inputData, inputLength, matrixNull) ==
    IF ~initialized \/ dataNull \/ inputLength = 0 \/ matrixNull
    THEN /\ call' = CallRecord(dataNull, inputData, inputLength, matrixNull, "false",
                               FALSE, NoOutcome, FALSE)
         /\ UNCHANGED <<config, initialized, trigger, matrix>>
    ELSE LET cleared == clearMatrix(matrix)
             out == Outcome(triggerMode, triggerLevel, amplitudeScale, samplesPerPixel,
                            inputData, inputLength)
             members == TriggerUpdate(out.found, out.triggerPos, triggerDetected,
                                      triggerPosition)
         IN /\ triggerDetected' = members.detected
            /\ triggerPosition' = members.position
            /\ matrix' = IF out.result THEN Assign(cleared, out.written, 255) ELSE cleared
            /\ call' = CallRecord(dataNull, inputData, inputLength, matrixNull,
                                  IF out.result THEN "true" ELSE "false", TRUE, out,
                                  DOMAIN matrix \ out.written # {})
            /\ samplesPerPixel' = 1
            /\ UNCHANGED <<triggerMode, triggerLevel, amplitudeScale, initialized>>

\* processData without the test of _initialized in its parameter check.
processDataUnguarded(dataNull, inputData, inputLength, matrixNull) ==
    IF dataNull \/ inputLength = 0 \/ matrixNull
    THEN /\ call' = CallRecord(dataNull, inputData, inputLength, matrixNull, "false",
                               FALSE, NoOutcome, FALSE)
         /\ UNCHANGED <<config, initialized, trigger, matrix>>
    ELSE LET cleared == clearMatrix(matrix)
             out == Outcome(triggerMode, triggerLevel, amplitudeScale, samplesPerPixel,
                            inputData, inputLength)
             members == TriggerUpdate(out.found, out.triggerPos, triggerDetected,
                                      triggerPosition)
         IN /\ triggerDetected' = members.detected
            /\ triggerPosition' = members.position
            /\ matrix' = IF out.result THEN Assign(cleared, out.written, 255) ELSE cleared
            /\ call' = CallRecord(dataNull, inputData, inputLength, matrixNull,
                                  IF out.result THEN "true" ELSE "false", TRUE, out,
                                  DOMAIN matrix \ out.written # {})
            /\ UNCHANGED <<config, initialized>>

\* bool Pds::processData(inputData, inputLength, outputMatrix)
\* dataNull: inputData == nullptr; matrixNull: outputMatrix == nullptr;
\* otherwise inputData holds inputLength samples.
processData(dataNull, inputData, inputLength, matrixNull) ==
    IF ~initialized \/ dataNull \/ inputLength = 0 \/ matrixNull
    THEN /\ call' = CallRecord(dataNull, inputData, inputLength, matrixNull, "false",
                               FALSE, NoOutcome, FALSE)
         /\ UNCHANGED <<config, initialized, trigger, matrix>>
    ELSE LET cleared == clearMatrix(matrix)
             out == Outcome(triggerMode, triggerLevel, amplitudeScale, samplesPerPixel,
                            inputData, inputLength)
             members == TriggerUpdate(out.found, out.triggerPos, triggerDetected,
                                      triggerPosition)
         IN /\ triggerDetected' = members.detected
            /\ triggerPosition' = members.position
            /\ matrix' = IF out.result THEN Assign(cleared, out.written, 255) ELSE cleared
            /\ call' = CallRecord(dataNull, inputData, inputLength, matrixNull,
                                  IF out.result THEN "true" ELSE "false", TRUE, out,
                                  DOMAIN matrix \ out.written # {})
            /\ UNCHANGED <<config, initialized>>

\* ------------------------------------------------------------------ setters
\* void Pds::begin()
begin ==
    /\ initialized' = TRUE
    /\ call' = [call EXCEPT !.fresh = FALSE]
    /\ UNCHANGED <<config, trigger, matrix>>

\* void Pds::setTrigger(TriggerMode mode, uint8_t level)
setTrigger(mode, level) ==
    /\ triggerMode' = mode
    /\ triggerLevel' = level
    /\ call' = [call EXCEPT !.fresh = FALSE]
    /\ UNCHANGED <<amplitudeScale, samplesPerPixel, initialized, trigger, matrix>>

\* setAmplitudeScale without its test of scale > 0.
setAmplitudeScaleUnchecked(scale) ==
    /\ amplitudeScale' = scale
    /\ call' = [call EXCEPT !.fresh = FALSE]
    /\ UNCHANGED <<triggerMode, triggerLevel, samplesPerPixel, initialized, trigger, matrix>>

\* void Pds::setAmplitudeScale(float scale)
setAmplitudeScale(scale) ==
    /\ amplitudeScale' = IF scale.num > 0 THEN scale ELSE amplitudeScale
    /\ call' = [call EXCEPT !.fresh = FALSE]
    /\ UNCHANGED <<triggerMode, triggerLevel, samplesPerPixel, initialized, trigger, matrix>>

\* void Pds::setTimeScale(uint16_t samplesPerPixel)
setTimeScale(spp) ==
    /\ samplesPerPixel' = IF spp > 0 THEN spp ELSE samplesPerPixel
    /\ call' = [call EXCEPT !.fresh = FALSE]
    /\ UNCHANGED <<triggerMode, triggerLevel, amplitudeScale, initialized, trigger, matrix>>

\* --------------------------------------------------------------- MCU.ino
\* addresses[] of changeRAMAddress()
addresses == <<0, 8192, 16384, 24576, 32768, 40960, 49152>>

\* The globals and function statics of the sketch before setup().
\* captured tells whether performDataCapture() has run; tCommands and
\* aCommands are the numbers of 't' and 'a' commands since setup(), counted
\* modulo the lengths of their cycles.
SketchGlobals ==
    [started |-> FALSE, ramInitialized |-> FALSE,
     sampleBuffer |-> sampleBuffer,
     currentRAMAddress |-> 0, continuousMode |-> TRUE,
     currentMode |-> TRIGGER_RISING, addressIndex |-> 0,
     captured |-> FALSE, tCommands |-> 0, aCommands |-> 0]

\* void setup(): ram.begin(), pds.begin(), setTrigger(TRIGGER_RISING, 128),
\* setAmplitudeScale(1.0f), setTimeScale(1)
setup ==
    /\ ~mcu.started
    /\ mcu' = [mcu EXCEPT !.started = TRUE, !.ramInitialized = TRUE]
    /\ initialized' = TRUE
    /\ triggerMode' = TRIGGER_RISING
    /\ triggerLevel' = 128
    /\ amplitudeScale' = UnitScale
    /\ samplesPerPixel' = 1
    /\ call' = [call EXCEPT !.fresh = FALSE]
    /\ UNCHANGED <<trigger, matrix, sim, bus>>

\* void performDataCapture(), entered with the globals m
performDataCapture(m) ==
    IF ~m.ramInitialized
    THEN /\ mcu' = [m EXCEPT !.captured = TRUE]
         /\ UNCHANGED <<config, initialized, trigger, matrix, call, sim, bus>>
    ELSE LET read == readBlock(m.ramInitialized, sim, m.currentRAMAddress,
                               m.sampleBuffer, SAMPLE_BUFFER_SIZE)
         IN /\ mcu' = [m EXCEPT !.sampleBuffer = read.buffer, !.captured = TRUE]
            /\ sim' = read.sim
            /\ bus' = IF read.transferred = 0 THEN bus
                      ELSE [selected |-> FALSE, transactions |-> bus.transactions + 1,
                            addr |-> m.currentRAMAddress,
                            transferred |-> read.transferred,
                            reply |-> read.sim.wr_buf]
            /\ processData(FALSE, mcu'.sampleBuffer, SAMPLE_BUFFER_SIZE, FALSE)

\* loop(), when the capture interval has passed
loopCapture ==
    /\ mcu.started /\ ~mcu.captured
    /\ mcu.continuousMode
    /\ performDataCapture(mcu)

\* cycleTriggerMode() whose switch leaves the level mode out.
nextModeSkipsLevel(mode) ==
    CASE mode = TRIGGER_OFF -> TRIGGER_RISING
      [] mode = TRIGGER_RISING -> TRIGGER_FALLING
      [] mode = TRIGGER_FALLING -> TRIGGER_OFF
      [] mode = TRIGGER_LEVEL -> TRIGGER_OFF

\* The switch of cycleTriggerMode(): the mode that follows mode
nextMode(mode) ==
    CASE mode = TRIGGER_OFF -> TRIGGER_RISING
      [] mode = TRIGGER_RISING -> TRIGGER_FALLING
      [] mode = TRIGGER_FALLING -> TRIGGER_LEVEL
      [] mode = TRIGGER_LEVEL -> TRIGGER_OFF

\* void cycleTriggerMode(), the 't' command
cycleTriggerMode ==
    /\ mcu.started /\ ~mcu.captured
    /\ mcu' = [mcu EXCEPT !.currentMode = nextMode(mcu.currentMode),
                          !.tCommands = (@ + 1) % 4]
    /\ setTrigger(nextMode(mcu.currentMode), 128)
    /\ UNCHANGED <<sim, bus>>

\* void changeRAMAddress(), the 'a' command
changeRAMAddress ==
    /\ mcu.started /\ ~mcu.captured
    /\ LET index == (mcu.addressIndex + 1) % Len(addresses)
       IN mcu' = [mcu EXCEPT !.addressIndex = index,
                             !.currentRAMAddress = addresses[index + 1],
                             !.aCommands = (@ + 1) % Len(addresses)]
    /\ UNCHANGED <<config, initialized, trigger, matrix, call, sim, bus>>

\* processSerialCommands(), the 's' command
singleShot ==
    /\ mcu.started /\ ~mcu.captured
    /\ performDataCapture([mcu EXCEPT !.continuousMode = FALSE])

\* processSerialCommands(), the 'c' command
continuous ==
    /\ mcu.started /\ ~mcu.captured
    /\ mcu' = [mcu EXCEPT !.continuousMode = TRUE]
    /\ UNCHANGED <<config, initialized, trigger, matrix, call, sim, bus>>

\* ----------------------------------------------------------- specifications
\* A Pds instance used on its own: no sketch, no simulator, no bus.
Standalone ==
    /\ mcu = "none"
    /\ sim = "none"
    /\ bus = "none"


\* processData called on an instance used on its own.
processDataAlone(dataNull, inputData, inputLength, matrixNull) ==
    processData(dataNull, inputData, inputLength, matrixNull) /\ UNCHANGED board

\* Pds::Pds() and the zero-initialised global matrix of the sketch
Init ==
    /\ triggerMode = TRIGGER_OFF
    /\ triggerLevel = 128
    /\ amplitudeScale = UnitScale
    /\ samplesPerPixel = 1
    /\ initialized = FALSE
    /\ triggerDetected = FALSE
    /\ triggerPosition = 0
    /\ matrix = << >>
    /\ call = NoCall
    /\ Standalone

\* Any sequence of calls of the public member functions on one instance.
Next ==
    \/ begin /\ UNCHANGED board
    \/ \E mode \in TriggerMode, level \in Levels :
           setTrigger(mode, level) /\ UNCHANGED board
    \/ \E scale \in AcceptedScales \cup RejectedScales :
           setAmplitudeScale(scale) /\ UNCHANGED board
    \/ \E spp \in AcceptedTimeScales \cup RejectedTimeScales :
           setTimeScale(spp) /\ UNCHANGED board
    \/ \E data \in Buffers : processDataAlone(FALSE, data, Len(data), FALSE)
    \/ processDataAlone(TRUE, << >>, 1, FALSE)
    \/ processDataAlone(FALSE, <<128>>, 1, TRUE)

Spec == Init /\ [][Next]_vars

\* One processData call on an instance set up by begin(),
\* setTrigger(mode, level), setAmplitudeScale(scale) and setTimeScale(1), for
\* every mode, level, accepted scale and short buffer of the trigger bounds.  The trigger members are what earlier calls can have
\* left: a trigger at index 0 or 1 that is still shown as detected or not.
InitTrigger ==
    /\ triggerMode \in TriggerMode
    /\ triggerLevel \in TriggerLevels
    /\ amplitudeScale \in AcceptedScales
    /\ samplesPerPixel = 1
    /\ initialized = TRUE
    /\ triggerDetected \in BOOLEAN
    /\ triggerPosition \in {0, 1}
    /\ matrix = << >>
    /\ call = NoCall
    /\ Standalone

NextTrigger ==
    /\ call.result = "none"
    /\ UNCHANGED board
    /\ \E data \in TriggerBuffers : processData(FALSE, data, Len(data), FALSE)

SpecTrigger == InitTrigger /\ [][NextTrigger]_vars

\* An instance configured by begin() and accepted setter calls, and then any
\* sequence of setter calls with arguments the setters do not take and of
\* processData calls.
InitConfig ==
    /\ triggerMode \in TriggerMode
    /\ triggerLevel = 128
    /\ amplitudeScale \in AcceptedScales
    /\ samplesPerPixel \in AcceptedTimeScales
    /\ initialized = TRUE
    /\ triggerDetected = FALSE
    /\ triggerPosition = 0
    /\ matrix = << >>
    /\ call = NoCall
    /\ Standalone

NextConfig ==
    \/ \E scale \in RejectedScales : setAmplitudeScale(scale) /\ UNCHANGED board
    \/ \E spp \in RejectedTimeScales : setTimeScale(spp) /\ UNCHANGED board
    \/ \E data \in ShortBuffers :
           processData(FALSE, data, Len(data), FALSE) /\ UNCHANGED board

SpecConfig == InitConfig /\ [][NextConfig]_vars

\* One drawLine call on a cleared matrix, for every pair of end points of
\* LineXs x LineYs.  call records its arguments, the pixels (x, y) its loop
\* went through in order (none when the bounds check returned) and the
\* cells it assigned.
LineXs == (0..MaxLineX) \cup {MATRIX_WIDTH - 1, MATRIX_WIDTH}
LineYs == (0..MaxLineY) \cup {MATRIX_HEIGHT - 1, MATRIX_HEIGHT}

LineRecord(x1, y1, x2, y2) ==
    LET inside == ~(x1 >= MATRIX_WIDTH \/ x2 >= MATRIX_WIDTH
                    \/ y1 >= MATRIX_HEIGHT \/ y2 >= MATRIX_HEIGHT)
        path == LinePath(x1, y1, x2, y2)
    IN [x1 |-> x1, y1 |-> y1, x2 |-> x2, y2 |-> y2,
        result |-> "drawLine",
        visited |-> IF inside THEN [k \in 1..Len(path) |-> <<path[k][1], path[k][2]>>]
                    ELSE << >>,
        cells |-> DrawLineCells(x1, y1, x2, y2)]

drawLineCall(x1, y1, x2, y2) ==
    /\ matrix' = drawLine(matrix, x1, y1, x2, y2, 255)
    /\ call' = LineRecord(x1, y1, x2, y2)
    /\ UNCHANGED <<config, initialized, trigger>>

NextLine ==
    /\ call.result = "none"
    /\ UNCHANGED board
    /\ \E x1 \in LineXs, x2 \in LineXs, y1 \in LineYs, y2 \in LineYs :
           drawLineCall(x1, y1, x2, y2)

SpecLine == Init /\ [][NextLine]_vars

\* One scaleAmplitude call for every byte, under the amplitude scales of the
\* test sketch: 0.5, 1.0 and 2.0.  call records the argument and the value
\* returned.
Bytes == 0..255
TestScales == {[num |-> 1, den |-> 2], UnitScale, [num |-> 2, den |-> 1]}

InitScale ==
    /\ triggerMode = TRIGGER_OFF
    /\ triggerLevel = 128
    /\ amplitudeScale \in TestScales
    /\ samplesPerPixel = 1
    /\ initialized = TRUE
    /\ triggerDetected = FALSE
    /\ triggerPosition = 0
    /\ matrix = << >>
    /\ call = NoCall
    /\ Standalone

scaleAmplitudeCall(value) ==
    /\ call' = [result |-> "scaleAmplitude", value |-> value,
                y |-> scaleAmplitude(value, amplitudeScale)]
    /\ UNCHANGED <<config, initialized, trigger, matrix>>

NextScale ==
    /\ call.result = "none"
    /\ UNCHANGED board
    /\ \E value \in Bytes : scaleAmplitudeCall(value)

SpecScale == InitScale /\ [][NextScale]_vars

\* One processData call on an initialised instance, for every configuration
\* of the setter inputs and every ramp.
InitRamp ==
    /\ triggerMode \in TriggerMode
    /\ triggerLevel \in RampLevels
    /\ amplitudeScale \in AcceptedScales
    /\ samplesPerPixel \in AcceptedTimeScales
    /\ initialized = TRUE
    /\ triggerDetected = FALSE
    /\ triggerPosition = 0
    /\ matrix = << >>
    /\ call = NoCall
    /\ Standalone

NextRamp ==
    /\ call.result = "none"
    /\ UNCHANGED board
    /\ \E data \in RampBuffers : processData(FALSE, data, Len(data), FALSE)

SpecRamp == InitRamp /\ [][NextRamp]_vars

\* One column of a processData call on an initialised instance, for every
\* configuration and buffer of the column bounds: the first column, which
\* is computed ahead of the for loop, or one pass of the for loop that the
\* passes before it did not leave through the break.  call records the
\* buffer, the locals startIndex and pixelsToFill, the column x, the row y
\* computed for it, and the locals of the pass.
ColumnBuffers == BuffersOver(ColumnValues, MaxColumnLen) \ {<< >>}

InitColumns ==
    /\ triggerMode \in TriggerMode
    /\ triggerLevel = 128
    /\ amplitudeScale \in AcceptedScales
    /\ samplesPerPixel \in ColumnTimeScales
    /\ initialized = TRUE
    /\ triggerDetected = FALSE
    /\ triggerPosition = 0
    /\ matrix = << >>
    /\ call = NoCall
    /\ Standalone

ColumnRecord(data, startIndex, pixelsToFill, x, pass) ==
    [result |-> "column", inputData |-> data, inputLength |-> Len(data),
     startIndex |-> startIndex, pixelsToFill |-> pixelsToFill, x |-> x,
     y |-> pass.prevY, broken |-> pass.broken,
     sampleCount |-> pass.sampleCount, avgValue |-> pass.avgValue]

firstColumn(data) ==
    LET startIndex == TriggerSearch(triggerMode, triggerLevel, data, Len(data)).startIndex
        pixelsToFill == PixelsToFill(Len(data), startIndex, samplesPerPixel)
        prevY == scaleAmplitude(At(data, startIndex), amplitudeScale)
    IN /\ pixelsToFill # 0
       /\ call' = ColumnRecord(data, startIndex, pixelsToFill, 0,
                               [prevY |-> prevY, broken |-> FALSE, sampleCount |-> 1,
                                avgValue |-> At(data, startIndex)])
       /\ UNCHANGED <<config, initialized, trigger, matrix>>

columnPass(data, x) ==
    LET startIndex == TriggerSearch(triggerMode, triggerLevel, data, Len(data)).startIndex
        pixelsToFill == PixelsToFill(Len(data), startIndex, samplesPerPixel)
        prevY == scaleAmplitude(At(data, startIndex), amplitudeScale)
        before == ColumnLoop(prevY, 1, x, data, Len(data), startIndex, amplitudeScale,
                             samplesPerPixel)
    IN /\ x < pixelsToFill
       /\ ~before.broken
       /\ call' = ColumnRecord(data, startIndex, pixelsToFill, x,
                               ColumnStep(before.prevY, x, data, Len(data), startIndex,
                                          amplitudeScale, samplesPerPixel))
       /\ UNCHANGED <<config, initialized, trigger, matrix>>

NextColumns ==
    \/ /\ call.result = "none"
       /\ UNCHANGED board
       /\ \E data \in ColumnBuffers : firstColumn(data)
    \/ /\ call.result = "none"
       /\ UNCHANGED board
       /\ \E data \in ColumnBuffers : \E x \in 1..Len(data) : columnPass(data, x)

SpecColumns == InitColumns /\ [][NextColumns]_vars

\* An instance as constructed, handed a matrix that is cleared or holds a
\* pixel of an earlier use, and then any sequence of begin(), setTrigger,
\* setTimeScale and processData calls.
DirtyMatrix == (<<0, 0>> :> 255)

InitBegin ==
    /\ triggerMode = TRIGGER_OFF
    /\ triggerLevel = 128
    /\ amplitudeScale = UnitScale
    /\ samplesPerPixel = 1
    /\ initialized = FALSE
    /\ triggerDetected = FALSE
    /\ triggerPosition = 0
    /\ matrix \in {<< >>, DirtyMatrix}
    /\ call = NoCall
    /\ Standalone

NextBegin ==
    \/ begin /\ UNCHANGED board
    \/ \E mode \in TriggerMode, level \in Levels :
           setTrigger(mode, level) /\ UNCHANGED board
    \/ \E spp \in AcceptedTimeScales : setTimeScale(spp) /\ UNCHANGED board
    \/ \E data \in ShortBuffers :
           processData(FALSE, data, Len(data), FALSE) /\ UNCHANGED board

SpecBegin == InitBegin /\ [][NextBegin]_vars

\* The simulator after its setup(), and a master that runs read
\* transactions the way RamReader::readBlock does: chip select low, the
\* command, three address bytes, zeros to clock the data out, chip select
\* high.  One step is one byte on the bus.
InitSim ==
    /\ triggerMode = TRIGGER_OFF
    /\ triggerLevel = 128
    /\ amplitudeScale = UnitScale
    /\ samplesPerPixel = 1
    /\ initialized = FALSE
    /\ triggerDetected = FALSE
    /\ triggerPosition = 0
    /\ matrix = << >>
    /\ call = NoCall
    /\ mcu = "none"
    /\ sim \in {SimulatorSetup(cast) : cast \in Casts}
    /\ bus = BusIdle

\* digitalWrite(_cs, LOW)
select(addr) ==
    /\ ~bus.selected
    /\ bus.transactions < MaxTransactions
    /\ bus' = [selected |-> TRUE, transactions |-> bus.transactions + 1, addr |-> addr,
               transferred |-> 0, reply |-> 0]
    /\ UNCHANGED sim
    /\ UNCHANGED <<config, initialized, trigger, matrix, call, mcu>>

\* _spi->transfer(...) of the next byte of the transaction
transfer ==
    /\ bus.selected
    /\ bus.transferred < 4 + MaxData
    /\ sim' = spiSlaveISR(sim, ReadBytes(bus.addr, MaxData)[bus.transferred + 1])
    /\ bus' = [bus EXCEPT !.transferred = @ + 1, !.reply = sim'.wr_buf]
    /\ UNCHANGED <<config, initialized, trigger, matrix, call, mcu>>

\* digitalWrite(_cs, HIGH), after one data byte at least
deselect ==
    /\ bus.selected
    /\ bus.transferred > 4
    /\ bus' = [bus EXCEPT !.selected = FALSE]
    /\ UNCHANGED sim
    /\ UNCHANGED <<config, initialized, trigger, matrix, call, mcu>>

\* loop() of the simulator, when its reset interval has passed
inactivityReset ==
    /\ ~sim.dataRequested /\ sim.commandReceived
    /\ sim' = [sim EXCEPT !.commandReceived = FALSE]
    /\ UNCHANGED bus
    /\ UNCHANGED <<config, initialized, trigger, matrix, call, mcu>>

NextSim ==
    \/ \E addr \in TransactionAddresses : select(addr)
    \/ transfer
    \/ deselect
    \/ inactivityReset

SpecSim == InitSim /\ [][NextSim]_vars

\* The sketch from power-on, wired to the simulator: setup(), then the
\* commands 'c', 't' and 'a' in any order, up to the first capture, by the
\* 's' command or by loop().  The commands '+' and '-' only change the
\* amplitude scale and 'h' only prints; they are left out.  Before the
\* first transaction the simulator's inactivity reset has nothing to reset.
InitSketch ==
    /\ triggerMode = TRIGGER_OFF
    /\ triggerLevel = 128
    /\ amplitudeScale = UnitScale
    /\ samplesPerPixel = 1
    /\ initialized = FALSE
    /\ triggerDetected = FALSE
    /\ triggerPosition = 0
    /\ matrix = << >>
    /\ call = NoCall
    /\ mcu = SketchGlobals
    /\ sim \in {SimulatorSetup(cast) : cast \in Casts}
    /\ bus = BusIdle

NextSketch ==
    \/ setup
    \/ loopCapture
    \/ singleShot
    \/ continuous
    \/ cycleTriggerMode
    \/ changeRAMAddress

SpecSketch == InitSketch /\ [][NextSketch]_vars

\* ------------------------------------------------------------------- claims
MinOf(a, b) == IF a < b THEN a ELSE b

\* The last processData call got past its parameter check, and no setter
\* has changed the configuration since it returned.
LastCallProcessed == call.fresh /\ call.checked

\* The columns of a set of cells.
Columns(cells) == {c[1] : c \in cells}

\* The indices at which a buffer crosses the level upwards / downwards.
RisingHits(data, length, level) ==
    {i \in 1..(length - 1) : At(data, i - 1) < level /\ level <= At(data, i)}

FallingHits(data, length, level) ==
    {i \in 1..(length - 1) : At(data, i - 1) >= level /\ level > At(data, i)}

NonDecreasing(data, length) ==
    \A i \in 1..(length - 1) : At(data, i - 1) <= At(data, i)

\* C1: every cell processData writes, and so every nonzero cell of the matrix,
\* has 0 <= x < 800 and 0 <= y < 600.
C1_WritesInsideMatrix ==
    \A c \in call.written \cup DOMAIN matrix :
        /\ 0 <= c[1] /\ c[1] < MATRIX_WIDTH
        /\ 0 <= c[2] /\ c[2] < MATRIX_HEIGHT

\* A successful call that wrote in the last column, in the top row and in
\* the bottom row.
C1_Witness ==
    /\ call.result = "true"
    /\ \E c \in call.written : c[1] = MATRIX_WIDTH - 1
    /\ \E c \in call.written : c[2] = 0
    /\ \E c \in call.written : c[2] = MATRIX_HEIGHT - 1

\* C2: a processData call on an initialised instance with a valid matrix and an
\* empty or null sample buffer returns false and leaves every cell 0.
C2_EmptyInputLeavesMatrixCleared ==
    (/\ call.fresh
     /\ initialized
     /\ ~call.matrixNull
     /\ (call.dataNull \/ call.inputLength = 0))
    => (call.result = "false" /\ DOMAIN matrix = {})

\* C3: when pixelsToFill = min(800, (length - start) / samplesPerPixel) is 0,
\* processData returns false, has drawn nothing, and every cell is 0.
C3_NoPixelsFailsWithClearedMatrix ==
    (/\ LastCallProcessed
     /\ MinOf(MATRIX_WIDTH,
              (call.inputLength - call.startIndex) \div samplesPerPixel) = 0)
    => (/\ call.result = "false"
        /\ call.written = {}
        /\ DOMAIN matrix = {})

\* A call left with no pixel after aligning to a trigger past index 0, on a
\* matrix that held a waveform.
C3_Witness ==
    /\ LastCallProcessed
    /\ call.startIndex > 0
    /\ (call.inputLength - call.startIndex) \div samplesPerPixel = 0
    /\ call.stale

\* C4: after a successful processData call the matrix is the image of the
\* buffer under the configuration, whatever it held before: 255 in the cells
\* the drawing loop assigns for that buffer and configuration, 0 elsewhere.
C4_MatrixDependsOnInputOnly ==
    (call.fresh /\ call.result = "true")
    => matrix = [c \in Outcome(triggerMode, triggerLevel, amplitudeScale,
                               samplesPerPixel, call.inputData,
                               call.inputLength).written |-> 255]

\* A successful call that drew on a matrix holding cells of an earlier
\* waveform that the new one does not cover.
C4_Witness ==
    /\ call.fresh
    /\ call.result = "true"
    /\ call.stale
    /\ DOMAIN matrix # {}

\* C5: with trigger mode Off a processData call that processes its buffer
\* starts at index 0 and leaves _triggerDetected false.
C5_OffStartsAtZeroUndetected ==
    (LastCallProcessed /\ triggerMode = TRIGGER_OFF)
    => (/\ call.startIndex = 0
        /\ ~call.found
        /\ ~triggerDetected)

\* A call in mode Off on a buffer with a rising crossing of the level, after
\* an earlier call had detected a trigger past index 0.
C5_Witness ==
    /\ LastCallProcessed
    /\ triggerMode = TRIGGER_OFF
    /\ RisingHits(call.inputData, call.inputLength, triggerLevel) # {}
    /\ triggerPosition > 0

\* C6: in Rising mode with length >= 2 findTrigger returns the smallest i in
\* [1, length) with data[i-1] < level <= data[i], and SIZE_MAX exactly when
\* there is none; on a non-decreasing buffer there is at most one such i.
C6_RisingFirstCrossing ==
    (LastCallProcessed /\ triggerMode = TRIGGER_RISING /\ call.inputLength >= 2)
    => LET hits == RisingHits(call.inputData, call.inputLength, triggerLevel)
       IN /\ (call.triggerPos = SIZE_MAX) <=> (hits = {})
          /\ hits # {} => /\ call.triggerPos \in hits
                          /\ \A j \in hits : call.triggerPos <= j
          /\ NonDecreasing(call.inputData, call.inputLength) => Cardinality(hits) <= 1

\* A Rising search on a buffer that crosses the level upwards twice.
C6_Witness ==
    /\ LastCallProcessed
    /\ triggerMode = TRIGGER_RISING
    /\ Cardinality(RisingHits(call.inputData, call.inputLength, triggerLevel)) >= 2
    /\ call.triggerPos = 1

\* C7: in Falling mode with length >= 2 findTrigger returns the smallest i in
\* [1, length) with data[i-1] >= level > data[i], and SIZE_MAX exactly when
\* there is none.
C7_FallingFirstCrossing ==
    (LastCallProcessed /\ triggerMode = TRIGGER_FALLING /\ call.inputLength >= 2)
    => LET hits == FallingHits(call.inputData, call.inputLength, triggerLevel)
       IN /\ (call.triggerPos = SIZE_MAX) <=> (hits = {})
          /\ hits # {} => /\ call.triggerPos \in hits
                          /\ \A j \in hits : call.triggerPos <= j

\* A Falling search on a buffer that crosses the level downwards twice.
C7_Witness ==
    /\ LastCallProcessed
    /\ triggerMode = TRIGGER_FALLING
    /\ Cardinality(FallingHits(call.inputData, call.inputLength, triggerLevel)) >= 2
    /\ call.triggerPos = 1

NothingToFind ==
    \/ call.inputLength < 2
    \/ /\ triggerMode = TRIGGER_RISING
       /\ RisingHits(call.inputData, call.inputLength, triggerLevel) = {}
    \/ /\ triggerMode = TRIGGER_FALLING
       /\ FallingHits(call.inputData, call.inputLength, triggerLevel) = {}

\* C9: when the trigger search of an enabled trigger finds nothing,
\* processData starts at index 0, leaves _triggerDetected false and goes on:
\* it fills min(800, length / samplesPerPixel) columns and succeeds whenever
\* that is at least one.
C9_NotFoundFallsBackToZero ==
    (LastCallProcessed /\ triggerMode # TRIGGER_OFF /\ NothingToFind)
    => (/\ call.triggerPos = SIZE_MAX
        /\ call.startIndex = 0
        /\ ~triggerDetected
        /\ call.pixelsToFill = MinOf(MATRIX_WIDTH, call.inputLength \div samplesPerPixel)
        /\ (call.result = "true") <=> (call.inputLength \div samplesPerPixel >= 1))

\* A successful call in Rising mode on a buffer of two samples or more that
\* never crosses the level upwards.
C9_Witness ==
    /\ LastCallProcessed
    /\ triggerMode = TRIGGER_RISING
    /\ call.inputLength >= 2
    /\ NothingToFind
    /\ call.result = "true"
    /\ DOMAIN matrix # {}

\* C10: pixelsToFill = min(800, (length - start) / samplesPerPixel) with start
\* the trigger position or 0; the segments drawn cover exactly the columns
\* 0 .. pixelsToFill - 1 (the segment of column x runs from column x - 1),
\* and nothing is drawn when pixelsToFill < 2.
C10_PixelsToFill ==
    LastCallProcessed
    => (/\ call.startIndex = (IF triggerDetected THEN triggerPosition ELSE 0)
        /\ call.pixelsToFill =
               MinOf(MATRIX_WIDTH,
                     (call.inputLength - call.startIndex) \div samplesPerPixel)
        /\ samplesPerPixel = 1 =>
               call.pixelsToFill = MinOf(MATRIX_WIDTH, call.inputLength - call.startIndex)
        /\ Columns(call.written) = (IF call.pixelsToFill >= 2
                                    THEN 0..(call.pixelsToFill - 1)
                                    ELSE {})
        /\ Columns(DOMAIN matrix) = Columns(call.written))

\* A call aligned to a trigger past index 0 with more than 800 samples left:
\* the cap applies, and the columns 0 .. 799 are drawn.
C10_Witness ==
    /\ LastCallProcessed
    /\ call.startIndex > 0
    /\ call.inputLength - call.startIndex > MATRIX_WIDTH
    /\ call.pixelsToFill = MATRIX_WIDTH
    /\ call.result = "true"

\* The last call processed a ramp with trigger Off, scale 1.0 and one sample
\* per pixel.
RampCase ==
    /\ LastCallProcessed
    /\ triggerMode = TRIGGER_OFF
    /\ amplitudeScale = UnitScale
    /\ samplesPerPixel = 1
    /\ call.inputData = Ramp(call.inputLength)

\* C11 (as the code has it): for a ramp 0 .. n - 1 of n samples, so for the
\* 100 samples 0 .. 99, with scale 1.0, one sample per pixel and
\* trigger Off, processData succeeds with pixelsToFill = n (100, not 99), no
\* cell outside columns [0, n) x rows [0, 600) is set, every column of
\* [0, n) holds a cell when n >= 2, and y does not increase with x.
C11_RampFillsAllColumns ==
    RampCase
    => (/\ call.result = "true"
        /\ call.pixelsToFill = call.inputLength
        /\ \A c \in DOMAIN matrix : /\ 0 <= c[1] /\ c[1] < call.inputLength
                                    /\ 0 <= c[2] /\ c[2] < MATRIX_HEIGHT
        /\ call.inputLength >= 2 => Columns(DOMAIN matrix) = 0..(call.inputLength - 1)
        /\ \A c, d \in DOMAIN matrix : c[1] < d[1] => c[2] >= d[2])

\* The ramp of 100 samples 0 .. 99 was processed and column 99 holds a cell.
C11_Witness ==
    /\ RampCase
    /\ call.inputLength = 100
    /\ call.result = "true"
    /\ \E c \in DOMAIN matrix : c[1] = 99

\* C11 as stated: for the ramp 0 .. 99 processData succeeds with
\* pixelsToFill = 99 and no cell outside columns [0, 99) x rows [0, 600) is
\* set.
C11_RampAsStated ==
    (RampCase /\ call.inputLength = 100)
    => (/\ call.result = "true"
        /\ call.pixelsToFill = 99
        /\ \A c \in DOMAIN matrix : /\ 0 <= c[1] /\ c[1] < 99
                                    /\ 0 <= c[2] /\ c[2] < MATRIX_HEIGHT)

MaxOf(a, b) == IF a > b THEN a ELSE b

\* The last call was a drawLine call with both end points inside the matrix.
LineInRange ==
    /\ call.result = "drawLine"
    /\ call.x1 < MATRIX_WIDTH /\ call.x2 < MATRIX_WIDTH
    /\ call.y1 < MATRIX_HEIGHT /\ call.y2 < MATRIX_HEIGHT

\* C12: for end points inside the matrix drawLine visits exactly
\* max(|x2 - x1|, |y2 - y1|) + 1 distinct cells, the first (x1, y1), the last
\* (x2, y2), each at most 1 away from the previous one in x and in y, and
\* assigns exactly the cells it visits.
C12_LineVisitsMaxPlusOneCells ==
    LineInRange
    => LET n == MaxOf(abs(call.x2 - call.x1), abs(call.y2 - call.y1)) + 1
           v == call.visited
       IN /\ Len(v) = n
          /\ Cardinality({v[k] : k \in 1..Len(v)}) = n
          /\ v[1] = <<call.x1, call.y1>>
          /\ v[Len(v)] = <<call.x2, call.y2>>
          /\ \A k \in 2..Len(v) : /\ abs(v[k][1] - v[k - 1][1]) <= 1
                                  /\ abs(v[k][2] - v[k - 1][2]) <= 1
          /\ call.cells = {v[k] : k \in 1..Len(v)}
          /\ matrix = [c \in call.cells |-> 255]

\* A line across the whole matrix, from the top of column 0 to the bottom of
\* the last column.
C12_Witness ==
    /\ LineInRange
    /\ call.x1 = 0 /\ call.y1 = 0
    /\ call.x2 = MATRIX_WIDTH - 1 /\ call.y2 = MATRIX_HEIGHT - 1
    /\ Cardinality(DOMAIN matrix) = MATRIX_WIDTH

\* The integer nearest to n / d, for d > 0 and n >= 0.
Round(n, d) == ((2 * n) + d) \div (2 * d)

\* C13: for amplitude scale 1.0 and every sample s of 0 .. 255, scaleAmplitude
\* returns round(599 - (s / 255) * 599), the nearest integer to the exact
\* quotient 599 * (255 - s) / 255, clamped to 0 .. 599.
C13_MapperRoundsToNearest ==
    (call.result = "scaleAmplitude" /\ amplitudeScale = UnitScale)
    => call.y = constrainValue(Round((MATRIX_HEIGHT - 1) * (255 - call.value), 255),
                               0, MATRIX_HEIGHT - 1)

\* C14: for a fixed amplitude scale scaleAmplitude does not increase with the
\* sample: scaleAmplitude(a) >= scaleAmplitude(b) for all a <= b; with scale
\* 1.0 the sample is used as it is, 0 maps to 599 and 255 to 0.
C14_MapperNonIncreasing ==
    call.result = "scaleAmplitude"
    => (/\ \A a \in 0..call.value : scaleAmplitude(a, amplitudeScale) >= call.y
        /\ amplitudeScale = UnitScale =>
              /\ call.y = (MATRIX_HEIGHT - 1)
                             - ((call.value * (MATRIX_HEIGHT - 1)) \div 255)
              /\ call.value = 0 => call.y = MATRIX_HEIGHT - 1
              /\ call.value = 255 => call.y = 0)

\* The largest sample under scale 2.0, where the clamp of the scaled value
\* applies, mapped to row 0.
C14_Witness ==
    /\ call.result = "scaleAmplitude"
    /\ amplitudeScale = [num |-> 2, den |-> 1]
    /\ call.value = 255
    /\ call.y = 0

\* C15: amplitudeScale > 0 and samplesPerPixel >= 1 always hold; a
\* setAmplitudeScale call with scale <= 0 and a setTimeScale(0) call leave
\* the stored values as they were (no step of these calls and of processData
\* changes them), and a processData call that got past its parameter check
\* fails only for want of samples, never because of such a setter call.
C15_SettersKeepConfigurationValid ==
    /\ [](/\ amplitudeScale.num > 0 /\ amplitudeScale.den > 0
          /\ samplesPerPixel >= 1
          /\ (LastCallProcessed /\ call.result = "false")
                => (call.inputLength - call.startIndex) \div samplesPerPixel = 0)
    /\ [][UNCHANGED <<amplitudeScale, samplesPerPixel>>]_vars

\* A successful processData call under scale 2.0 and two samples per pixel,
\* followed by a setter call whose argument was not taken: the values are
\* still the ones set before.
C15_Witness ==
    /\ call.result = "true"
    /\ ~call.fresh
    /\ amplitudeScale = [num |-> 2, den |-> 1]
    /\ samplesPerPixel = 2

\* C16: after every processData call, successful or not, _triggerDetected
\* (getTriggerStatus()) is true if and only if that call detected a trigger
\* in the buffer passed to it.
C16_TriggerResultRecomputed ==
    (call.fresh /\ call.result \in {"true", "false"})
    => (triggerDetected <=> call.found)

\* C17: whenever _triggerDetected is true, _triggerPosition is an index of the
\* buffer of the most recent processData call: 0 <= position < L.
C17_PositionInsideLastBuffer ==
    (triggerDetected /\ call.result \in {"true", "false"})
    => (0 <= triggerPosition /\ triggerPosition < call.inputLength)

\* A step of a processData call: only processData leaves call.fresh true.
ProcessDataStep == call'.fresh /\ call' # call

\* C18: a processData call changes nothing of the configuration (_triggerMode,
\* _triggerLevel, _amplitudeScale, _samplesPerPixel, _initialized): what the
\* setters stored persists across the calls.  The buffer is a parameter the
\* call only reads.
C18_ProcessDataKeepsConfiguration ==
    [][ProcessDataStep => UNCHANGED <<config, initialized>>]_vars

\* A successful call under a configuration set by the setters (Rising, scale
\* 2.0, two samples per pixel) that changed the matrix and the trigger
\* result.
C18_Witness ==
    /\ call.fresh
    /\ call.result = "true"
    /\ triggerMode = TRIGGER_RISING
    /\ amplitudeScale = [num |-> 2, den |-> 1]
    /\ samplesPerPixel = 2
    /\ triggerDetected
    /\ DOMAIN matrix # {}

\* C19: on an initialised instance with one sample per pixel, processData
\* returns true for every non-empty buffer, trigger mode, trigger level and
\* accepted amplitude scale.
C19_OneSamplePerPixelSucceeds ==
    (LastCallProcessed /\ samplesPerPixel = 1) => call.result = "true"

\* A call under scale 2.0 whose trigger is the last sample of the buffer: one
\* sample is left from the start index, and the call succeeds.
C19_Witness ==
    /\ LastCallProcessed
    /\ samplesPerPixel = 1
    /\ amplitudeScale = [num |-> 2, den |-> 1]
    /\ call.found
    /\ call.startIndex = call.inputLength - 1
    /\ call.result = "true"

\* C20: every processData call that returns true leaves a nonzero cell in the
\* matrix: the anchor point in column 0 is drawn.
C20_SuccessDrawsAnchor ==
    call.result = "true" => \E c \in DOMAIN matrix : c[1] = 0


\* The address a read transaction is served from: the address sent, or 0
\* when that is past the simulated RAM.
ServedFrom(addr) == IF addr >= RAM_SIZE THEN 0 ELSE addr

\* C21: in every read transaction of the simulator, the first as well as
\* the later ones, the k-th data byte the master receives (k = 0 for the
\* transfer after the three address bytes) is
\* simulatedRAM[(A + k) mod 65536], A being the address sent in that
\* transaction, or 0 when it is 65536 or more.
C21_ReadAnsweredFromItsAddress ==
    bus.transferred > 4 =>
        bus.reply = simulatedRAM((ServedFrom(bus.addr) + (bus.transferred - 5)) % RAM_SIZE,
                                 sim.cast)

\* The same for the first transaction after setup() when the inactivity
\* reset has not come in between its bytes.
C21_FirstReadAnswered ==
    (bus.transactions = 1 /\ bus.transferred > 4 /\ sim.dataRequested) =>
        bus.reply = simulatedRAM((ServedFrom(bus.addr) + (bus.transferred - 5)) % RAM_SIZE,
                                 sim.cast)

\* The bytes of the simulated RAM from the selected address on, as many as
\* the sample buffer holds.
SelectedBytes ==
    [k \in 1..SAMPLE_BUFFER_SIZE |->
        simulatedRAM((mcu.currentRAMAddress + (k - 1)) % RAM_SIZE, sim.cast)]

\* C22: each 'a' command moves the selected RAM address one step through
\* 0x0000, 0x2000, 0x4000, 0x6000, 0x8000, 0xA000, 0xC000 and back to
\* 0x0000, and the capture that follows fills the 1024-byte sample buffer
\* with the bytes read from the selected address and hands that buffer to
\* processData.
C22_CaptureReadsSelectedAddress ==
    /\ mcu.addressIndex = mcu.aCommands
    /\ mcu.currentRAMAddress = addresses[mcu.aCommands + 1]
    /\ mcu.captured =>
           /\ mcu.sampleBuffer = SelectedBytes
           /\ call.inputData = mcu.sampleBuffer
           /\ call.inputLength = SAMPLE_BUFFER_SIZE

\* What the sketch does of it: the address cycle, a capture at address
\* 0x0000 that reads the selected bytes, and a capture at any other
\* address that leaves the sample buffer as it was and hands that to
\* processData.
C22_AddressCycleAndFirstSection ==
    /\ mcu.addressIndex = mcu.aCommands
    /\ mcu.currentRAMAddress = addresses[mcu.aCommands + 1]
    /\ mcu.captured =>
           /\ mcu.sampleBuffer = IF mcu.currentRAMAddress < ramSize THEN SelectedBytes
                                 ELSE sampleBuffer
           /\ bus.transactions = IF mcu.currentRAMAddress < ramSize THEN 1 ELSE 0
           /\ call.inputData = mcu.sampleBuffer
           /\ call.inputLength = SAMPLE_BUFFER_SIZE

\* The cyclic order of the trigger modes under the 't' command
ModeOrder == <<TRIGGER_OFF, TRIGGER_RISING, TRIGGER_FALLING, TRIGGER_LEVEL>>

C24_UninitializedCallChangesNothing ==
    [][ProcessDataStep =>
          IF ~initialized
          THEN /\ call'.result = "false"
               /\ ~call'.checked
               /\ UNCHANGED <<config, initialized, trigger, matrix>>
          ELSE (~call'.dataNull /\ call'.inputLength > 0 /\ ~call'.matrixNull)
                   => call'.checked]_vars

\* A call with a buffer of two samples before begin(), on a matrix that
\* held a pixel and a configuration changed by setTrigger: false, and the
\* pixel is still there.
C24_Witness ==
    /\ ~initialized
    /\ call.fresh /\ call.result = "false"
    /\ call.inputLength = 2 /\ ~call.dataNull /\ ~call.matrixNull
    /\ triggerMode = TRIGGER_RISING
    /\ matrix = DirtyMatrix

\* The samples data[from], .., data[to - 1] added up.
RECURSIVE WindowSum(_, _, _)
WindowSum(data, from, to) ==
    IF from >= to THEN 0 ELSE data[from + 1] + WindowSum(data, from + 1, to)

\* The first index of the window of column x, and the index after its last.
WindowStart(c) == c.startIndex + c.x * samplesPerPixel
WindowEnd(c) == MinOf(WindowStart(c) + samplesPerPixel, c.inputLength)

\* C25: for every column x of 1 .. pixelsToFill - 1 the value that is
\* mapped to the row y is the sum of the samplesPerPixel samples from index
\* start + x * samplesPerPixel on, cut off at the end of the buffer,
\* divided by their number and rounded down; for column 0 it is the sample
\* at index start as it is.
C25_ColumnValueIsFloorAverage ==
    call.result = "column" =>
        /\ call.avgValue =
               IF call.x = 0 THEN call.inputData[call.startIndex + 1]
               ELSE WindowSum(call.inputData, WindowStart(call), WindowEnd(call))
                        \div (WindowEnd(call) - WindowStart(call))
        /\ call.y = scaleAmplitude(call.avgValue, amplitudeScale)

\* A column past the first with two samples per pixel whose sum, 100 + 201,
\* is odd: the value is 150.
C25_Witness ==
    /\ call.result = "column"
    /\ call.x >= 1
    /\ samplesPerPixel = 2
    /\ call.sampleCount = 2
    /\ call.avgValue = 150

\* C29: for every column x of 1 .. pixelsToFill - 1 the window of
\* samplesPerPixel samples lies inside the buffer, start + x *
\* samplesPerPixel + samplesPerPixel <= inputLength: the pass does not
\* leave the loop through its break, it averages exactly samplesPerPixel
\* samples, and never falls back to the single sample for want of any.
C29_WindowInsideBuffer ==
    (call.result = "column" /\ call.x >= 1) =>
        /\ call.startIndex + call.x * samplesPerPixel + samplesPerPixel <= call.inputLength
        /\ ~call.broken
        /\ call.sampleCount = samplesPerPixel
        /\ call.sampleCount > 0

\* The last column of a buffer whose samples past the trigger fill the
\* columns exactly: two columns of two samples after a trigger at index 1.
C29_Witness ==
    /\ call.result = "column"
    /\ call.startIndex = 1
    /\ samplesPerPixel = 2
    /\ call.inputLength = 5
    /\ call.x = 1
    /\ call.x = call.pixelsToFill - 1
    /\ call.sampleCount = 2

\* A step that is a call of drawLine.
DrawLineStep == call.result = "none" /\ call'.result = "drawLine"

\* C26: drawLine draws only when both end points lie in [0,800) x [0,600).
\* With an end point out of range the call visits no cell and leaves the
\* matrix as it was; with both in range every cell the loop goes through
\* holds the intensity 255 afterwards and no other cell has changed.
C26_DrawsOnlyInRangeSegments ==
    [][DrawLineStep =>
         LET c == call'
             inRange == /\ c.x1 < MATRIX_WIDTH /\ c.x2 < MATRIX_WIDTH
                        /\ c.y1 < MATRIX_HEIGHT /\ c.y2 < MATRIX_HEIGHT
         IN IF inRange
            THEN /\ Len(c.visited) > 0
                 /\ matrix' = [cell \in {c.visited[k] : k \in 1..Len(c.visited)} |-> 255]
                                   @@ matrix
            ELSE /\ c.cells = {}
                 /\ matrix' = matrix]_vars

\* A line from the last row of the matrix to the first row past it, in
\* columns of the matrix: the cell of the last row is not written.
C26_Witness ==
    /\ call.result = "drawLine"
    /\ call.x1 = 0 /\ call.x2 = 1
    /\ call.y1 = MATRIX_HEIGHT - 1 /\ call.y2 = MATRIX_HEIGHT
    /\ matrix = << >>

\* C28: for end points inside the matrix the while loop of drawLine leaves
\* through its break at (x2, y2) after fewer passes than are followed, and
\* every cell it goes through lies in the bounding box of the end points.
C28_LineEndsInsideBoundingBox ==
    LineInRange
    => LET v == call.visited
       IN /\ Len(v) >= 1
          /\ Len(v) < MaxLineSteps
          /\ v[Len(v)] = <<call.x2, call.y2>>
          /\ \A k \in 1..Len(v) :
                 /\ MinOf(call.x1, call.x2) <= v[k][1]
                 /\ v[k][1] <= MaxOf(call.x1, call.x2)
                 /\ MinOf(call.y1, call.y2) <= v[k][2]
                 /\ v[k][2] <= MaxOf(call.y1, call.y2)

\* A line drawn backwards and upwards, from the bottom of the last column
\* to the column 1 of the top row, a flat line the other way round.
C28_Witness ==
    /\ LineInRange
    /\ call.x1 = MATRIX_WIDTH - 1 /\ call.y1 = MATRIX_HEIGHT - 1
    /\ call.x2 = 1 /\ call.y2 = 0
    /\ Len(call.visited) = MATRIX_WIDTH - 1

\* The last call processed a buffer that never decreases with trigger Off,
\* scale 1.0 and one sample per pixel.
NonDecreasingCase ==
    /\ LastCallProcessed
    /\ triggerMode = TRIGGER_OFF
    /\ amplitudeScale = UnitScale
    /\ samplesPerPixel = 1
    /\ NonDecreasing(call.inputData, call.inputLength)

\* The cells of the matrix form a continuous line over the columns
\* 0 .. n - 1 that does not go down to the right: every column holds a
\* cell, every column past the first holds a cell next to a cell of the
\* column before it, and of two cells the one further right is not lower.
ContinuousLine(n) ==
    /\ \A x \in 0..(n - 1) : \E c \in DOMAIN matrix : c[1] = x
    /\ \A x \in 1..(n - 1) : \E c, d \in DOMAIN matrix :
           /\ c[1] = x - 1 /\ d[1] = x
           /\ abs(c[2] - d[2]) <= 1
    /\ \A c, d \in DOMAIN matrix : c[1] < d[1] => d[2] <= c[2]

\* C27: for a buffer that never decreases, with trigger Off, one sample per
\* pixel and scale 1.0, the cells set form a continuous line: every column
\* 0 .. pixelsToFill - 1 holds a cell, the cells of adjacent columns are
\* 8-connected, and y does not increase with x.
C27_NonDecreasingDrawsContinuousLine ==
    NonDecreasingCase => ContinuousLine(call.pixelsToFill)

\* C27 for buffers of two samples or more, where the column loop runs.
C27_ContinuousFromTwoSamples ==
    (NonDecreasingCase /\ call.inputLength >= 2) => ContinuousLine(call.pixelsToFill)

\* C30: a processData call that gets past the parameter check and detects
\* no trigger, with mode Off or with no index that qualifies, leaves
\* _triggerDetected false and _triggerPosition as it was; a call that
\* detects one stores its index, and no other member function assigns
\* _triggerPosition.  So getTriggerPosition() returns the index of the last
\* call that detected a trigger, and 0, the value of the constructor, as
\* long as none has.
C30_PositionKeptWhenNothingDetected ==
    [][/\ (ProcessDataStep /\ call'.checked /\ ~call'.found)
            => (~triggerDetected' /\ triggerPosition' = triggerPosition)
       /\ (ProcessDataStep /\ call'.checked /\ call'.found)
            => (triggerDetected' /\ triggerPosition' = call'.triggerPos)
       /\ ~ProcessDataStep => triggerPosition' = triggerPosition]_vars

\* After a call that detected a trigger at index 1, a call with mode Off
\* was processed: the status is false and the position is still 1.
C30_Witness ==
    /\ LastCallProcessed
    /\ triggerMode = TRIGGER_OFF
    /\ ~call.found
    /\ ~triggerDetected
    /\ triggerPosition = 1
====
